---------------------------- MODULE Spec2Model ----------------------------
(***************************************************************************)
(* Model of the two IFRC local-unit reports:                               *)
(*   src/src/extract_local_units.py          (the "simple" report)         *)
(*   src/src/extract_local_units_treemap.py  (the "treemap" report)        *)
(*                                                                         *)
(* Each run is sequential: main loops over ENVIRONMENTS, fetches the       *)
(* paginated listing(s) of the environment page by page, tallies the       *)
(* records and finally writes one spreadsheet.  One action is one HTTP     *)
(* request (one iteration of the fetcher's loop) or one straight-line      *)
(* stretch of main between two fetches.                                    *)
(*                                                                         *)
(* Python strings are sequences of code points, so that sorted() and the   *)
(* f-string "Unknown (<code>)" are computed as Python computes them.       *)
(* An optional value (None or a value) is << >> or <<value>>.              *)
(***************************************************************************)
EXTENDS Integers, Sequences, FiniteSets, TLC

----------------------------------------------------------------------------
(* Bounds of the model *)

\* A server answers with a non-empty page at most MaxPages - 1 times in one
\* fetch; the request at offset (MaxPages - 1) * LIMIT finds no records.
MaxPages == 3

----------------------------------------------------------------------------
(* Configuration *)

LIMIT == 50

ENVIRONMENTS == <<"production", "staging">>

UNKNOWN_NO_TYPE == <<85, 110, 107, 110, 111, 119, 110, 32, 47, 32, 78, 111, 32, 84, 121, 112, 101>>
UNKNOWN_TYPE == <<85, 110, 107, 110, 111, 119, 110, 32, 84, 121, 112, 101>>
UNKNOWN_REGION == <<85, 110, 107, 110, 111, 119, 110, 32, 82, 101, 103, 105, 111, 110>>

Africa == <<65, 102, 114, 105, 99, 97>>
Americas == <<65, 109, 101, 114, 105, 99, 97, 115>>
AsiaPacific == <<65, 115, 105, 97, 32, 80, 97, 99, 105, 102, 105, 99>>
Europe == <<69, 117, 114, 111, 112, 101>>
MENA == <<77, 69, 78, 65>>

REGION_MAP ==
    (0 :> Africa) @@ (1 :> Americas) @@ (2 :> AsiaPacific) @@ (3 :> Europe) @@ (4 :> MENA)

----------------------------------------------------------------------------
(* Python values *)

None == << >>
Some(x) == <<x>>
Val(o) == o[1]

EmptyDict == [k \in {} |-> 0]

\* d[k] = v
Put(d, k, v) == (k :> v) @@ d

\* d.get(k, default)
DictGet(d, k, default) == IF k \in DOMAIN d THEN d[k] ELSE default

\* counter[k] += 1
Increment(counter, k) == Put(counter, k, DictGet(counter, k, 0) + 1)

RECURSIVE SumOver(_, _)
SumOver(d, keys) ==
    IF keys = {} THEN 0
    ELSE LET k == CHOOSE x \in keys : TRUE IN d[k] + SumOver(d, keys \ {k})

\* sum(d.values())
SumValues(d) == SumOver(d, DOMAIN d)

\* str < str: code point by code point, a proper prefix first
RECURSIVE StrLess(_, _)
StrLess(a, b) ==
    IF a = << >> THEN b # << >>
    ELSE IF b = << >> THEN FALSE
    ELSE IF a[1] # b[1] THEN a[1] < b[1]
    ELSE StrLess(Tail(a), Tail(b))

\* (str, str) < (str, str)
PairLess(p, q) == StrLess(p[1], q[1]) \/ (p[1] = q[1] /\ StrLess(p[2], q[2]))

RECURSIVE Digits(_)
Digits(n) == IF n < 10 THEN <<48 + n>> ELSE Digits(n \div 10) \o <<48 + (n % 10)>>

\* str(n), as the f-string formats an int
IntStr(n) == IF n < 0 THEN <<45>> \o Digits(0 - n) ELSE Digits(n)

\* round-half-to-even of num / den, den > 0 (numpy's rint)
RoundHalfEven(num, den) ==
    LET q == num \div den
        r == num % den
    IN  IF 2 * r < den THEN q
        ELSE IF 2 * r > den THEN q + 1
        ELSE IF q % 2 = 0 THEN q ELSE q + 1

----------------------------------------------------------------------------
(* Aggregators *)

\* the truth value of: type_details and type_details.get("name")
HasTypeName(record) ==
    record.type_details # None /\ Val(record.type_details) # << >>

CountRecordDropUntyped(counter, record) ==
    IF HasTypeName(record)
    THEN Increment(counter, Val(record.type_details))
    ELSE counter

\* the body of count_types' loop
CountRecord(counter, record) ==
    IF HasTypeName(record)
    THEN Increment(counter, Val(record.type_details))
    ELSE Increment(counter, UNKNOWN_NO_TYPE)

\* for record in records[lo..hi]: the body, in order.  The range is halved and
\* the test left = left has the left half evaluated before the right half is
\* entered: the evaluation nests to a depth of log(hi - lo), not hi - lo.
RECURSIVE CountTypesRange(_, _, _, _)
CountTypesRange(records, lo, hi, counter) ==
    IF lo > hi THEN counter
    ELSE IF lo = hi THEN CountRecord(counter, records[lo])
    ELSE LET mid == (lo + hi) \div 2
             left == CountTypesRange(records, lo, mid, counter)
         IN  IF left = left
             THEN CountTypesRange(records, mid + 1, hi, left)
             ELSE counter

count_types(records) == CountTypesRange(records, 1, Len(records), EmptyDict)

RegionNameOffByOne(region_id) ==
    IF region_id + 1 \in DOMAIN REGION_MAP THEN REGION_MAP[region_id + 1]
    ELSE <<85, 110, 107, 110, 111, 119, 110, 32, 40>> \o IntStr(region_id) \o <<41>>

\* REGION_MAP.get(region_id, f"Unknown ({region_id})")
RegionName(region_id) ==
    IF region_id \in DOMAIN REGION_MAP THEN REGION_MAP[region_id]
    ELSE <<85, 110, 107, 110, 111, 119, 110, 32, 40>> \o IntStr(region_id) \o <<41>>

\* the body of build_country_to_region's loop
MapCountry(mapping, c) ==
    IF c.id # None /\ c.region # None
    THEN Put(mapping, Val(c.id), RegionName(Val(c.region)))
    ELSE mapping

\* for c in countries[lo..hi]: the body, in order
RECURSIVE BuildMappingRange(_, _, _, _)
BuildMappingRange(countries, lo, hi, mapping) ==
    IF lo > hi THEN mapping
    ELSE IF lo = hi THEN MapCountry(mapping, countries[lo])
    ELSE LET mid == (lo + hi) \div 2
             left == BuildMappingRange(countries, lo, mid, mapping)
         IN  IF left = left
             THEN BuildMappingRange(countries, mid + 1, hi, left)
             ELSE mapping

build_country_to_region(countries) ==
    BuildMappingRange(countries, 1, Len(countries), EmptyDict)

\* country_to_region.get(country_id): None when the id is no key of the mapping
LookupRegion(mapping, country_id) ==
    IF country_id # None /\ Val(country_id) \in DOMAIN mapping
    THEN Some(mapping[Val(country_id)])
    ELSE None

\* type_name of a local unit in process_environment
TreemapTypeName(unit) ==
    IF HasTypeName(unit) THEN Val(unit.type_details) ELSE UNKNOWN_TYPE

\* the body of process_environment's loop over local_units; acc holds
\* type_region_counter and unresolved_countries
CountUnit(mapping, acc, unit) ==
    LET type_name == TreemapTypeName(unit)
        region_name == LookupRegion(mapping, unit.country)
    IN  IF region_name = None
        THEN [counter |-> Increment(acc.counter, <<type_name, UNKNOWN_REGION>>),
              unresolved |-> acc.unresolved \cup {unit.country}]
        ELSE [counter |-> Increment(acc.counter, <<type_name, Val(region_name)>>),
              unresolved |-> acc.unresolved]

\* for unit in local_units[lo..hi]: the body, in order
RECURSIVE CountUnitsRange(_, _, _, _, _)
CountUnitsRange(mapping, units, lo, hi, acc) ==
    IF lo > hi THEN acc
    ELSE IF lo = hi THEN CountUnit(mapping, acc, units[lo])
    ELSE LET mid == (lo + hi) \div 2
             left == CountUnitsRange(mapping, units, lo, mid, acc)
         IN  IF left = left
             THEN CountUnitsRange(mapping, units, mid + 1, hi, left)
             ELSE acc

\* type_region_counter and unresolved_countries after the loop
CountTypeRegion(mapping, units) ==
    CountUnitsRange(mapping, units, 1, Len(units),
                    [counter |-> EmptyDict, unresolved |-> {}])

----------------------------------------------------------------------------
(* Reporters *)

RECURSIVE SortedDescending(_)
SortedDescending(S) ==
    IF S = {} THEN << >>
    ELSE LET m == CHOOSE x \in S : \A y \in S \ {x} : StrLess(y, x)
         IN  <<m>> \o SortedDescending(S \ {m})

\* sorted(S) for a set of str
RECURSIVE Sorted(_)
Sorted(S) ==
    IF S = {} THEN << >>
    ELSE LET m == CHOOSE x \in S : \A y \in S \ {x} : StrLess(x, y)
         IN  <<m>> \o Sorted(S \ {m})

\* sorted(S) for a set of (str, str)
RECURSIVE SortedPairs(_)
SortedPairs(S) ==
    IF S = {} THEN << >>
    ELSE LET m == CHOOSE x \in S : \A y \in S \ {x} : PairLess(x, y)
         IN  <<m>> \o SortedPairs(S \ {m})

AllTypesDescending(counts) ==
    SortedDescending(UNION { DOMAIN counts[e] : e \in DOMAIN counts })

\* sorted(set().union(*[c.keys() for c in env_counts.values()]))
AllTypes(counts) == Sorted(UNION { DOMAIN counts[e] : e \in DOMAIN counts })

\* rows of the simple report before the DataFrame is built
SimpleRows(counts) ==
    LET all_types == AllTypes(counts)
    IN  [i \in 1..Len(all_types) |->
            [categories |-> all_types[i],
             count |-> [e \in DOMAIN counts |-> DictGet(counts[e], all_types[i], 0)]]]

\* df[count_col].sum()
ColumnTotal(rows, e) ==
    LET col == [i \in 1..Len(rows) |-> rows[i].count[e]]
    IN  SumValues(col)

\* (count / total * 100).round(2) if total else 0, in hundredths of a percent
Pct(count, total) == IF total # 0 THEN RoundHalfEven(count * 10000, total) ELSE 0

\* (count / total * 100).round(0).astype(int) if total else 0
WaffleCells(count, total) == IF total # 0 THEN RoundHalfEven(count * 100, total) ELSE 0

\* the DataFrame of the simple report with its pct_ and waffle_cells_ columns
SummaryTable(counts) ==
    LET rows == SimpleRows(counts)
    IN  [i \in 1..Len(rows) |->
            [categories |-> rows[i].categories,
             count |-> rows[i].count,
             pct |-> [e \in DOMAIN counts |->
                        Pct(rows[i].count[e], ColumnTotal(rows, e))],
             waffle_cells |-> [e \in DOMAIN counts |->
                        WaffleCells(rows[i].count[e], ColumnTotal(rows, e))]]]

\* rows of a treemap sheet: sorted by (categories, Region)
SheetRows(counter) ==
    LET keys == SortedPairs(DOMAIN counter)
    IN  [i \in 1..Len(keys) |->
            [categories |-> keys[i][1], Region |-> keys[i][2], count |-> counter[keys[i]]]]

----------------------------------------------------------------------------
(* requests' exceptions *)

\* what requests.get (timeout=60) and resp.raise_for_status() can raise
RequestFailures == {"ConnectionError", "ConnectTimeout", "ReadTimeout", "HTTPError"}

\* the classes an exception is an instance of (requests.exceptions)
Superclasses(e) ==
    CASE e = "ConnectionError" -> {"ConnectionError", "RequestException"}
      [] e = "ConnectTimeout"  -> {"ConnectTimeout", "ConnectionError", "Timeout", "RequestException"}
      [] e = "ReadTimeout"     -> {"ReadTimeout", "Timeout", "RequestException"}
      [] e = "HTTPError"       -> {"HTTPError", "RequestException"}
      [] OTHER                 -> {e}

HandlerOnlyConnectionError(e) ==
    IF "ConnectionError" \in Superclasses(e) THEN "unreachable" ELSE "propagate"

\* the except clauses around the fetch: which warning is printed, or "propagate"
Handler(e) ==
    IF "ConnectionError" \in Superclasses(e) THEN "unreachable"
    ELSE IF "HTTPError" \in Superclasses(e) THEN "http_error"
    ELSE "propagate"

----------------------------------------------------------------------------
(* The servers *)

NameA == <<65>>
NameZ == <<90>>

\* the local units the servers of the simple report hold: the fields the
\* report reads
SimpleUnitKinds ==
    { [type_details |-> Some(NameA), country |-> Some(0)],
      [type_details |-> Some(NameZ), country |-> None],
      [type_details |-> None, country |-> None],
      [type_details |-> Some(<< >>), country |-> Some(0)] }

\* the local units the servers of the treemap report hold; country 0 is the
\* first country of the listing and country LIMIT the first of its second page
TreemapUnitKinds ==
    { [type_details |-> Some(NameA), country |-> Some(0)],
      [type_details |-> None, country |-> None],
      [type_details |-> Some(<< >>), country |-> Some(LIMIT)] }

\* the countries a server can hold.  A country's id is its position in the
\* listing.  In an "incomplete" page the countries at even positions lack the
\* id and those at odd positions lack the region.
CountryKinds ==
    { [incomplete |-> FALSE, region |-> 2],
      [incomplete |-> FALSE, region |-> 7],
      [incomplete |-> TRUE, region |-> 0] }

UnitPage(kind, off, n) ==
    [i \in 1..n |-> [id |-> off + i - 1,
                     type_details |-> kind.type_details,
                     country |-> kind.country]]

CountryPage(kind, off, n) ==
    [i \in 1..n |->
        LET pos == off + i - 1
        IN  [id |-> IF kind.incomplete /\ pos % 2 = 0 THEN None ELSE Some(pos),
             region |-> IF kind.incomplete /\ pos % 2 = 1 THEN None ELSE Some(kind.region)]]

Min(a, b) == IF a < b THEN a ELSE b

\* the sizes of the listings the reports are run against
ListingSizes == {0, 1, LIMIT + 1}

\* what a fetch run on its own is answered with: any count, any page size
ReportedCounts ==
    { None, Some(0), Some(1), Some(LIMIT), Some(LIMIT + 1), Some(2 * LIMIT),
      Some((MaxPages + 1) * LIMIT) }

PageSizes == {0, 1, LIMIT}

VARIABLES
    entry,              \* what is run: "fetch" (the fetcher alone), "simple", "treemap"
    pc,                 \* "fetch", "returned", "counted", "merge", "done", "raised"
    exc,                \* the exception that propagated, "" when none
    env,                \* index in ENVIRONMENTS of the environment in process
    listing,            \* the listing being fetched: "local_units" or "country"
    offset,
    all_results,
    served,             \* history of this fetch: the offsets asked and the responses
    countries,          \* process_environment's list of countries
    country_to_region,
    env_counts,
    all_sheets,
    type_region_counter,
    unresolved_countries,
    printed,            \* the warnings and the terminal error, in order
    written,            \* the spreadsheets written, in order
    log                 \* history of each environment: the requests made, the
                        \* exception a request raised, whether it was fetched
                        \* ("ok") or skipped ("failed"), and the lists fetched

vars == <<entry, pc, exc, env, listing, offset, all_results, served, countries,
          country_to_region, type_region_counter, unresolved_countries,
          env_counts, all_sheets, printed, written, log>>

EnvNames == { ENVIRONMENTS[i] : i \in 1..Len(ENVIRONMENTS) }

\* the first listing fetched for an environment
FirstListing(e) == IF e = "treemap" THEN "country" ELSE "local_units"

\* the responses a server can give to the request at offset off
Responses(off) ==
    IF entry = "fetch"
    THEN { [count |-> c, results |-> UnitPage(CHOOSE k \in SimpleUnitKinds : TRUE, off, n)] :
             c \in ReportedCounts,
             n \in IF off >= (MaxPages - 1) * LIMIT THEN {0} ELSE PageSizes }
    ELSE LET sizes == IF served = << >> THEN ListingSizes
                      ELSE { Val(served[1].resp.count) }
         IN  IF listing = "country"
             THEN { [count |-> Some(N),
                     results |-> CountryPage(k, off, Min(LIMIT, N - off))] :
                      N \in sizes, k \in CountryKinds }
             ELSE { [count |-> Some(N),
                     results |-> UnitPage(k, off, Min(LIMIT, N - off))] :
                      N \in sizes,
                      k \in IF entry = "simple" THEN SimpleUnitKinds ELSE TreemapUnitKinds }

Init ==
    /\ entry \in {"fetch", "simple", "treemap"}
    /\ pc = "fetch"
    /\ exc = ""
    /\ env = 1
    /\ listing = FirstListing(entry)
    /\ offset = 0
    /\ all_results = << >>
    /\ served = << >>
    /\ countries = << >>
    /\ country_to_region = EmptyDict
    /\ env_counts = EmptyDict
    /\ all_sheets = EmptyDict
    /\ type_region_counter = EmptyDict
    /\ unresolved_countries = {}
    /\ printed = << >>
    /\ written = << >>
    /\ log = [e \in EnvNames |->
                [status |-> "pending", requests |-> 0, exception |-> "",
                 countries |-> << >>, units |-> << >>]]

----------------------------------------------------------------------------
(* The fetcher: fetch_all_local_units / fetch_paginated *)

StopConditionCountOnly(off, total, results) == off >= total

StopConditionStrict(off, total, results) == off > total \/ Len(results) = 0

\* if offset >= total or len(results) == 0: break
StopCondition(off, total, results) == off >= total \/ Len(results) = 0

NextOffsetPlusOne(off) == off + LIMIT + 1

\* offset += LIMIT
NextOffset(off) == off + LIMIT

\* data.get("count", 0)
TotalOf(resp) == IF resp.count = None THEN 0 ELSE Val(resp.count)

\* one iteration of the loop whose request is answered with a 2xx response
FetchPage(resp) ==
    /\ pc = "fetch"
    /\ offset < MaxPages * LIMIT
    /\ all_results' = all_results \o resp.results
    /\ offset' = NextOffset(offset)
    /\ served' = Append(served, [offset |-> offset, resp |-> resp])
    /\ pc' = IF StopCondition(NextOffset(offset), TotalOf(resp), resp.results)
             THEN "returned" ELSE "fetch"
    /\ log' = [log EXCEPT ![ENVIRONMENTS[env]].requests = @ + 1]
    /\ UNCHANGED <<entry, exc, env, listing, countries, country_to_region,
                   type_region_counter, unresolved_countries,
                   env_counts, all_sheets, printed, written>>

\* main goes on to the next environment, or leaves the loop
NextEnvironment ==
    /\ all_results' = << >>
    /\ served' = << >>
    /\ offset' = 0
    /\ countries' = << >>
    /\ country_to_region' = EmptyDict
    /\ type_region_counter' = EmptyDict
    /\ unresolved_countries' = {}
    /\ listing' = FirstListing(entry)
    /\ IF env < Len(ENVIRONMENTS)
       THEN env' = env + 1 /\ pc' = "fetch"
       ELSE env' = env /\ pc' = "merge"

\* an exception leaves main (or the fetcher run on its own)
Propagate(e) ==
    /\ pc' = "raised"
    /\ exc' = e

\* one iteration of the loop whose request raises: requests.get or
\* resp.raise_for_status(); the except clauses of main / process_environment
FetchRaise(e) ==
    /\ pc = "fetch"
    /\ offset < MaxPages * LIMIT
    /\ IF entry = "fetch" \/ Handler(e) = "propagate"
       THEN /\ Propagate(e)
            /\ log' = [log EXCEPT ![ENVIRONMENTS[env]].requests = @ + 1,
                                  ![ENVIRONMENTS[env]].exception = e]
            /\ UNCHANGED <<env, listing, offset, all_results, served, countries,
                           country_to_region, type_region_counter,
                           unresolved_countries, printed>>
       ELSE /\ printed' = Append(printed, [message |-> Handler(e), env |-> ENVIRONMENTS[env]])
            /\ log' = [log EXCEPT ![ENVIRONMENTS[env]].requests = @ + 1,
                                  ![ENVIRONMENTS[env]].exception = e,
                                  ![ENVIRONMENTS[env]].status = "failed"]
            /\ NextEnvironment
            /\ UNCHANGED exc
    /\ UNCHANGED <<entry, env_counts, all_sheets, written>>

----------------------------------------------------------------------------
(* The simple report: main of extract_local_units.py *)

\* the try block after the fetch returned: count_types, env_counts[env_name]
StoreCounts ==
    /\ entry = "simple"
    /\ pc = "returned"
    /\ env_counts' = Put(env_counts, ENVIRONMENTS[env], count_types(all_results))
    /\ log' = [log EXCEPT ![ENVIRONMENTS[env]].status = "ok",
                          ![ENVIRONMENTS[env]].units = all_results]
    /\ NextEnvironment
    /\ UNCHANGED <<entry, exc, all_sheets, printed, written>>

\* after the loop: the table is built and saved.  pd.DataFrame([]) has no
\* columns, and df[count_col] then raises KeyError.
WriteSummary ==
    /\ entry = "simple"
    /\ pc = "merge"
    /\ env_counts # EmptyDict
    /\ IF SimpleRows(env_counts) = << >>
       THEN /\ Propagate("KeyError")
            /\ UNCHANGED written
       ELSE /\ written' = Append(written, [file |-> "local_units_summary.xlsx",
                                           content |-> SummaryTable(env_counts)])
            /\ pc' = "done"
            /\ UNCHANGED exc
    /\ UNCHANGED <<entry, env, listing, offset, all_results, served, countries,
                   country_to_region, type_region_counter, unresolved_countries,
                   env_counts, all_sheets, printed, log>>

----------------------------------------------------------------------------
(* The treemap report: process_environment and main of                     *)
(* extract_local_units_treemap.py                                          *)

\* Step 1 done: the mapping is built and the fetch of the local units starts
BuildMapping ==
    /\ entry = "treemap"
    /\ pc = "returned"
    /\ listing = "country"
    /\ countries' = all_results
    /\ country_to_region' = build_country_to_region(all_results)
    /\ listing' = "local_units"
    /\ offset' = 0
    /\ all_results' = << >>
    /\ served' = << >>
    /\ pc' = "fetch"
    /\ UNCHANGED <<entry, exc, env, type_region_counter, unresolved_countries,
                   env_counts, all_sheets, printed, written, log>>

\* Step 3: the loop over local_units
CountLocalUnits ==
    /\ entry = "treemap"
    /\ pc = "returned"
    /\ listing = "local_units"
    /\ LET acc == CountTypeRegion(country_to_region, all_results)
       IN  /\ type_region_counter' = acc.counter
           /\ unresolved_countries' = acc.unresolved
    /\ pc' = "counted"
    /\ UNCHANGED <<entry, exc, env, listing, offset, all_results, served, countries,
                   country_to_region, env_counts, all_sheets, printed, written, log>>

\* the DataFrame is built and returned, and main stores it in all_sheets.
\* pd.DataFrame([]) has no columns, and df.sort_values(["categories", "Region"])
\* then raises KeyError, which no except clause catches.
BuildSheet ==
    /\ entry = "treemap"
    /\ pc = "counted"
    /\ log' = [log EXCEPT ![ENVIRONMENTS[env]].status = "ok",
                          ![ENVIRONMENTS[env]].countries = countries,
                          ![ENVIRONMENTS[env]].units = all_results]
    /\ IF SheetRows(type_region_counter) = << >>
       THEN /\ Propagate("KeyError")
            /\ UNCHANGED <<env, listing, offset, all_results, served, countries,
                           country_to_region, type_region_counter,
                           unresolved_countries, all_sheets>>
       ELSE /\ all_sheets' = Put(all_sheets, ENVIRONMENTS[env],
                                 SheetRows(type_region_counter))
            /\ NextEnvironment
            /\ UNCHANGED exc
    /\ UNCHANGED <<entry, env_counts, printed, written>>

\* after the loop: one sheet per environment of all_sheets (the sheet of an
\* environment is named env_name.capitalize(); here it is keyed by env_name)
WriteTreemap ==
    /\ entry = "treemap"
    /\ pc = "merge"
    /\ all_sheets # EmptyDict
    /\ written' = Append(written, [file |-> "local_units_treemap.xlsx",
                                   content |-> all_sheets])
    /\ pc' = "done"
    /\ UNCHANGED <<entry, exc, env, listing, offset, all_results, served, countries,
                   country_to_region, type_region_counter, unresolved_countries,
                   env_counts, all_sheets, printed, log>>

\* after the loop, both reports: nothing was fetched
ExitNoData ==
    /\ pc = "merge"
    /\ IF entry = "simple" THEN env_counts = EmptyDict ELSE all_sheets = EmptyDict
    /\ printed' = Append(printed, [message |-> "no_data", env |-> ""])
    /\ pc' = "done"
    /\ UNCHANGED <<entry, exc, env, listing, offset, all_results, served, countries,
                   country_to_region, type_region_counter, unresolved_countries,
                   env_counts, all_sheets, written, log>>

----------------------------------------------------------------------------

Next ==
    \/ \E resp \in Responses(offset) : FetchPage(resp)
    \/ \E e \in RequestFailures : FetchRaise(e)
    \/ StoreCounts
    \/ WriteSummary
    \/ BuildMapping
    \/ CountLocalUnits
    \/ BuildSheet
    \/ WriteTreemap
    \/ ExitNoData

Spec == Init /\ [][Next]_vars

\* the fetcher called on its own
FetchInit == Init /\ entry = "fetch"

FetchNext ==
    \/ \E resp \in Responses(offset) : FetchPage(resp)
    \/ \E e \in RequestFailures : FetchRaise(e)

\* the fetcher is one sequential loop: its next step is always taken (a request
\* returns or raises within its timeout)
FairFetchSpec == FetchInit /\ [][FetchNext]_vars /\ WF_vars(FetchNext)

----------------------------------------------------------------------------
(* Properties of the fetcher *)

Max(a, b) == IF a > b THEN a ELSE b

LastServed == served[Len(served)]

\* the pages served so far, one after the other
RECURSIVE PagesUpTo(_)
PagesUpTo(n) == IF n = 0 THEN << >> ELSE PagesUpTo(n - 1) \o served[n].resp.results

\* the responses of this fetch are those of a server that holds N records,
\* reports count = N and answers offset o with the records at positions
\* o .. min(o + LIMIT, N) - 1
ServerHolds(N) ==
    \A i \in 1..Len(served) :
        LET o == served[i].offset
            page == served[i].resp.results
        IN  /\ served[i].resp.count = Some(N)
            /\ Len(page) = Min(LIMIT, Max(0, N - o))
            /\ listing = "local_units" => \A j \in 1..Len(page) : page[j].id = o + j - 1

\* C1: against a server that holds N records and answers consistently, the
\* fetcher asks for the offsets 0, LIMIT, 2*LIMIT, ... in this order, goes on
\* only while offset + LIMIT < N, and returns exactly the N records in server
\* order, each once.
C1_CompleteOrderedFetch ==
    \A N \in 0..((MaxPages + 1) * LIMIT) :
        (served # << >> /\ ServerHolds(N)) =>
            /\ \A i \in 1..Len(served) : served[i].offset = (i - 1) * LIMIT
            /\ \A i \in 1..(Len(served) - 1) : served[i].offset + LIMIT < N
            /\ pc = "fetch" => LastServed.offset + LIMIT < N
            /\ pc = "returned" =>
                  /\ LastServed.offset + LIMIT >= N
                  /\ Len(all_results) = N
                  /\ all_results = PagesUpTo(Len(served))
                  /\ listing = "local_units" =>
                        \A j \in 1..N : all_results[j].id = j - 1

\* a fetch of LIMIT + 1 records has returned after two pages
C1_Witness ==
    /\ pc = "returned"
    /\ listing = "local_units"
    /\ Len(served) = 2
    /\ ServerHolds(LIMIT + 1)
    /\ Len(all_results) = LIMIT + 1

\* the test of the loop's break, on a response of the history
Stops(i) ==
    \/ served[i].offset + LIMIT >= TotalOf(served[i].resp)
    \/ Len(served[i].resp.results) = 0

\* the fetch returns at the first response that passes the break test, with
\* the records accumulated so far
StopsAtFirst ==
    /\ \A i \in 1..(Len(served) - 1) : ~Stops(i)
    /\ (pc = "returned" /\ served # << >>) =>
          /\ Stops(Len(served))
          /\ all_results = PagesUpTo(Len(served))

\* C6: against a server that sooner or later answers with an empty page, also
\* one whose count is larger than what it ever delivers, every fetch comes to
\* an end, and it ends at the first response whose advanced offset reaches the
\* reported count or whose results are empty, with the records accumulated.
C6_FetchTerminates ==
    /\ [](pc = "fetch" => <>(pc # "fetch"))
    /\ []StopsAtFirst

\* a fetch has returned on an empty page though the reported count was not reached
C6_Witness ==
    /\ pc = "returned"
    /\ Len(served) = MaxPages
    /\ Len(LastServed.resp.results) = 0
    /\ offset < TotalOf(LastServed.resp)
    /\ all_results # << >>

\* C10 as stated: the count of the first response fixes the number of pages
\* requested (as long as no page is empty).
C10_FirstCountDecides ==
    (served # << >> /\ \A i \in 1..Len(served) : served[i].resp.results # << >>) =>
        LET expected == TotalOf(served[1].resp)
        IN  /\ pc = "fetch" => Len(served) * LIMIT < expected
            /\ pc = "returned" => Len(served) * LIMIT >= expected

\* C10 amended: the count is read again from every response; the fetcher goes
\* on after a response exactly when the advanced offset is below the count of
\* that response and its results are not empty.
C10_LatestCountDecides ==
    served # << >> =>
        /\ pc = "fetch" =>
              /\ offset < TotalOf(LastServed.resp)
              /\ LastServed.resp.results # << >>
        /\ pc = "returned" =>
              \/ offset >= TotalOf(LastServed.resp)
              \/ LastServed.resp.results = << >>
        /\ offset = Len(served) * LIMIT

\* the fetcher goes on after the second response because of its count, though
\* the count of the first response was reached
C10_Witness ==
    /\ pc = "fetch"
    /\ Len(served) = 2
    /\ TotalOf(served[1].resp) <= 2 * LIMIT
    /\ TotalOf(served[2].resp) > 2 * LIMIT

----------------------------------------------------------------------------
(* Properties of the aggregators *)

\* the records of a list that are counted under key k by the simple report
CountedUnder(records, k) ==
    { i \in 1..Len(records) :
        (IF HasTypeName(records[i]) THEN Val(records[i].type_details)
                                    ELSE UNKNOWN_NO_TYPE) = k }

\* C3: the counts of a tally add up to the number of records fetched: every
\* record, also one with a null type descriptor, an empty type name or an
\* unresolvable country, is counted once under one key.
C3_TallyConservation ==
    /\ \A e \in DOMAIN env_counts :
          LET records == log[e].units
              counter == env_counts[e]
          IN  /\ SumValues(counter) = Len(records)
              /\ \A k \in DOMAIN counter :
                    counter[k] = Cardinality(CountedUnder(records, k))
              /\ \A i \in 1..Len(records) :
                    \E k \in DOMAIN counter : i \in CountedUnder(records, k)
    /\ pc = "counted" =>
          /\ SumValues(type_region_counter) = Len(all_results)
          /\ \A k \in DOMAIN type_region_counter : type_region_counter[k] >= 1

\* a tally of LIMIT + 1 records, some of them without a type name
C3_Witness ==
    \E e \in DOMAIN env_counts :
        /\ Len(log[e].units) = LIMIT + 1
        /\ {NameA, UNKNOWN_NO_TYPE} \subseteq DOMAIN env_counts[e]
        /\ \E i \in 1..(LIMIT + 1) : log[e].units[i].type_details = None

\* the name the fixed table gives a region code
C9_NameOfCode(code) ==
    CASE code = 0 -> Africa
      [] code = 1 -> Americas
      [] code = 2 -> AsiaPacific
      [] code = 3 -> Europe
      [] code = 4 -> MENA
      [] OTHER -> <<85, 110, 107, 110, 111, 119, 110, 32, 40>> \o IntStr(code) \o <<41>>

\* the region a unit is to be counted under, from the list of countries
C9_RegionOf(unit) ==
    LET entries == { j \in 1..Len(countries) :
                       /\ countries[j].id # None
                       /\ countries[j].region # None
                       /\ countries[j].id = unit.country }
    IN  IF entries = {} THEN UNKNOWN_REGION
        ELSE LET last == CHOOSE j \in entries : \A k \in entries : k <= j
             IN  C9_NameOfCode(Val(countries[last].region))

\* the (type, region) keys of the units, each kind of unit once
C9_KeysOfUnits ==
    { <<TreemapTypeName(all_results[i]), C9_RegionOf(all_results[i])>> :
        i \in 1..Len(all_results) }

\* C9: every local unit is counted under the table's name of its country's
\* region code, under "Unknown (<code>)" when the code is outside the table and
\* under "Unknown Region" when its country is not in the mapping; the
\* unresolved set is the set of the country ids of the latter units.
C9_RegionResolution ==
    pc = "counted" =>
        /\ DOMAIN type_region_counter = C9_KeysOfUnits
        /\ \A k \in DOMAIN type_region_counter :
              type_region_counter[k] =
                  Cardinality({ i \in 1..Len(all_results) :
                                  /\ TreemapTypeName(all_results[i]) = k[1]
                                  /\ C9_RegionOf(all_results[i]) = k[2] })
        /\ unresolved_countries =
              { all_results[i].country :
                  i \in { j \in 1..Len(all_results) :
                            C9_RegionOf(all_results[j]) = UNKNOWN_REGION } }

\* units were counted under "Asia Pacific", under "Unknown (7)" and others
\* under "Unknown Region"
C9_Witness ==
    /\ pc = "counted"
    /\ \E k \in DOMAIN type_region_counter : k[2] = AsiaPacific
    /\ \E k \in DOMAIN type_region_counter : k[2] = UNKNOWN_REGION
    /\ unresolved_countries # {}
    /\ \E c \in DOMAIN country_to_region :
          country_to_region[c] = <<85, 110, 107, 110, 111, 119, 110, 32, 40, 55, 41>>

----------------------------------------------------------------------------
(* Properties of the runs *)

OkEnvs == { e \in EnvNames : log[e].status = "ok" }

EnvIndex(e) == CHOOSE i \in 1..Len(ENVIRONMENTS) : ENVIRONMENTS[i] = e

\* the failures that are a connection error or an HTTP error status
SkippedFailures == {"ConnectionError", "ConnectTimeout", "HTTPError"}

\* the output of a run configured with the fetched environments alone
ExpectedOutput ==
    IF entry = "simple"
    THEN SummaryTable([e \in OkEnvs |-> count_types(log[e].units)])
    ELSE [e \in OkEnvs |->
            SheetRows(CountTypeRegion(build_country_to_region(log[e].countries),
                                      log[e].units).counter)]

\* C2: an environment one of whose requests raised a connection error or an
\* HTTP error contributes no columns and no sheet, the later environments are
\* still fetched, and what is written is what the other environments alone
\* give.
C2_EnvironmentIsolation ==
    entry # "fetch" =>
        \A E \in EnvNames :
            log[E].exception \in SkippedFailures =>
                /\ E \notin DOMAIN env_counts
                /\ E \notin DOMAIN all_sheets
                /\ E \notin OkEnvs
                /\ \A L \in EnvNames :
                      EnvIndex(L) > EnvIndex(E) =>
                          \/ log[L].requests > 0
                          \/ pc = "fetch" /\ env = EnvIndex(L) /\ offset = 0
                /\ written # << >> =>
                      /\ written[1].content = ExpectedOutput
                      /\ entry = "simple" =>
                            \A i \in 1..Len(written[1].content) :
                                /\ E \notin DOMAIN written[1].content[i].count
                                /\ E \notin DOMAIN written[1].content[i].pct
                                /\ E \notin DOMAIN written[1].content[i].waffle_cells
                      /\ entry = "treemap" => E \notin DOMAIN written[1].content

\* production failed on its second page, and the report of staging was written
C2_Witness ==
    /\ entry = "simple"
    /\ log["production"].exception \in SkippedFailures
    /\ log["production"].requests = 2
    /\ log["staging"].status = "ok"
    /\ written # << >>

\* C8: the table of the simple report has one row per type name of the
\* tallies, in sorted order, and the count columns hold the tallies, 0 where an
\* environment lacks the type.
C8_SimpleReportRows ==
    (entry = "simple" /\ written # << >>) =>
        LET table == written[1].content
        IN  /\ DOMAIN env_counts = OkEnvs
            /\ { table[i].categories : i \in 1..Len(table) } =
                  UNION { DOMAIN env_counts[e] : e \in OkEnvs }
            /\ \A i \in 1..(Len(table) - 1) :
                  StrLess(table[i].categories, table[i + 1].categories)
            /\ \A i \in 1..Len(table) :
                  /\ DOMAIN table[i].count = OkEnvs
                  /\ \A e \in OkEnvs :
                        table[i].count[e] =
                            IF table[i].categories \in DOMAIN env_counts[e]
                            THEN env_counts[e][table[i].categories]
                            ELSE 0

\* a table of three rows over both environments, with a 0 in a count column
C8_Witness ==
    /\ entry = "simple"
    /\ written # << >>
    /\ OkEnvs = EnvNames
    /\ Len(written[1].content) = 3
    /\ \E i \in 1..3 : written[1].content[i].count["staging"] = 0

\* C7 as stated: a fetched environment with an empty tally has 0 in its
\* percentage and waffle-cell columns and the table is built and written
\* without an exception (in the runs in which no request raised an exception
\* that left main).
C7_ZeroTotalColumns ==
    (entry = "simple" /\ pc \in {"done", "raised"} /\ exc \notin RequestFailures) =>
        \A e \in DOMAIN env_counts :
            env_counts[e] = EmptyDict =>
                /\ pc = "done"
                /\ Len(written) = 1
                /\ \A i \in 1..Len(written[1].content) :
                      /\ written[1].content[i].pct[e] = 0
                      /\ written[1].content[i].waffle_cells[e] = 0

\* C4 as stated: when every environment failed to fetch the run prints the
\* terminal error and returns without writing; the file is written at most
\* once, after all environments were processed and one of them was fetched.
C4_TotalFailure ==
    entry # "fetch" =>
        /\ (pc \in {"done", "raised"} /\ \A e \in EnvNames : log[e].exception # "") =>
              /\ pc = "done"
              /\ printed # << >> /\ printed[Len(printed)].message = "no_data"
              /\ written = << >>
        /\ Len(written) <= 1
        /\ written # << >> =>
              /\ pc = "done"
              /\ OkEnvs # {}
              /\ \A e \in EnvNames : log[e].status # "pending"

\* C5 as stated: whatever the requests do, a failure becomes a warning and a
\* skipped environment, and no failure of a request leaves main.
C5_RunToCompletion ==
    entry # "fetch" =>
        /\ ~(pc = "raised" /\ exc \in RequestFailures)
        /\ \A e \in EnvNames :
              log[e].exception # "" =>
                  /\ log[e].status = "failed"
                  /\ \E i \in 1..Len(printed) : printed[i].env = e

=============================================================================
